---- MODULE Spec2Model ----
(***************************************************************************)
(* skrf.media.distributedCircuit.DistributedCircuit: a transmission-line   *)
(* mode held as distributed R', L', G', C' over a frequency grid, its      *)
(* derived Z', Y', Z0 and gamma, the inverse constructor from_media and    *)
(* the textual rendering.                                                  *)
(*                                                                         *)
(* Arithmetic.  The program computes in IEEE-754 binary64 through numpy.   *)
(* The model computes in exact rational arithmetic extended with the IEEE  *)
(* special values that the program's control flow and results depend on:   *)
(* signed zeros, +-infinity and NaN.  Rounding is not modelled, so a       *)
(* formula stating an equality of computed values states it up to          *)
(* floating-point rounding of the program.  A real is a record             *)
(*     [s |-> 1 or -1, n |-> numerator >= 0, d |-> denominator >= 0]       *)
(* in lowest terms; d = 0 with n = 1 is an infinity, n = d = 0 is NaN.     *)
(* Square roots are taken exactly; the read actions that take roots are    *)
(* explored on the stored values whose radicands have rational roots.      *)
(***************************************************************************)
EXTENDS Integers, Sequences, FiniteSets, TLC

\* ------------------------------------------------------------------ reals

RECURSIVE GCD(_, _)
GCD(a, b) == IF b = 0 THEN a ELSE GCD(b, a % b)

NaN == [s |-> 1, n |-> 0, d |-> 0]

Norm(s, n, d) ==
    IF d = 0
    THEN (IF n = 0 THEN NaN ELSE [s |-> s, n |-> 1, d |-> 0])
    ELSE LET g == GCD(n, d) IN [s |-> s, n |-> n \div g, d |-> d \div g]

\* the real p/q, q > 0
Q(p, q) == Norm(IF p < 0 THEN -1 ELSE 1, IF p < 0 THEN -p ELSE p, q)

Zero == Q(0, 1)
NegZero == [s |-> -1, n |-> 0, d |-> 1]
One == Q(1, 1)
Two == Q(2, 1)
Inf == [s |-> 1, n |-> 1, d |-> 0]

IsNaN(x) == x.n = 0 /\ x.d = 0
IsInf(x) == x.n # 0 /\ x.d = 0
IsFinite(x) == x.d # 0
\* x == 0 in IEEE comparison: true of +0 and of -0, false of NaN
IsZero(x) == x.n = 0 /\ x.d # 0

\* IEEE ==, < and >= (all false when an operand is NaN)
REq(x, y) == /\ ~IsNaN(x) /\ ~IsNaN(y)
             /\ \/ IsZero(x) /\ IsZero(y)
                \/ x = y
RLt(x, y) == /\ ~IsNaN(x) /\ ~IsNaN(y)
             /\ IF IsInf(x) \/ IsInf(y)
                THEN /\ x # y
                     /\ \/ IsInf(x) /\ x.s = -1
                        \/ IsInf(y) /\ y.s = 1
                ELSE x.s * x.n * y.d < y.s * y.n * x.d
RGe(x, y) == ~IsNaN(x) /\ ~IsNaN(y) /\ ~RLt(x, y)

RNeg(x) == IF IsNaN(x) THEN x ELSE [x EXCEPT !.s = -x.s]
RAbs(x) == [x EXCEPT !.s = 1]
RCopySign(x, y) == IF IsNaN(x) THEN x ELSE [x EXCEPT !.s = y.s]

RAdd(x, y) ==
    IF IsNaN(x) \/ IsNaN(y) THEN NaN
    ELSE IF IsInf(x) THEN (IF IsInf(y) /\ y.s # x.s THEN NaN ELSE x)
    ELSE IF IsInf(y) THEN y
    ELSE LET g == GCD(x.d, y.d)
             m == x.s * x.n * (y.d \div g) + y.s * y.n * (x.d \div g)
         IN  IF m = 0
             THEN [s |-> IF x.n = 0 /\ y.n = 0 /\ x.s = -1 /\ y.s = -1
                         THEN -1 ELSE 1,
                   n |-> 0, d |-> 1]
             ELSE Norm(IF m < 0 THEN -1 ELSE 1, IF m < 0 THEN -m ELSE m,
                       (x.d \div g) * y.d)

RSub(x, y) == RAdd(x, RNeg(y))
\* products and quotients, cross-reduced before multiplying
Frac(s, a, b, c, d) ==
    LET g1 == GCD(a, d)
        g2 == GCD(c, b)
        h1 == IF g1 = 0 THEN 1 ELSE g1
        h2 == IF g2 = 0 THEN 1 ELSE g2
    IN  Norm(s, (a \div h1) * (c \div h2), (b \div h2) * (d \div h1))

RMul(x, y) == Frac(x.s * y.s, x.n, x.d, y.n, y.d)
RDiv(x, y) == Frac(x.s * y.s, x.n, x.d, y.d, y.n)

RECURSIVE ISqrt(_)
\* floor of the square root of a natural number
ISqrt(k) ==
    IF k < 2 THEN k
    ELSE LET r == 2 * ISqrt(k \div 4) IN
         IF (r + 1) * (r + 1) <= k THEN r + 1 ELSE r

IsSquare(k) == ISqrt(k) * ISqrt(k) = k

\* the radicand has a rational root (or the root is a special value)
RsqrtExact(x) ==
    IsFinite(x) /\ ~IsZero(x) /\ x.s = 1 => IsSquare(x.n) /\ IsSquare(x.d)

Rsqrt(x) ==
    IF IsNaN(x) \/ IsZero(x) THEN x
    ELSE IF x.s = -1 THEN NaN
    ELSE IF IsInf(x) THEN x
    ELSE [s |-> 1, n |-> ISqrt(x.n), d |-> ISqrt(x.d)]

HypotArg(a, b) == RAdd(RMul(a, a), RMul(b, b))

Hypot(a, b) ==
    IF IsInf(a) \/ IsInf(b) THEN Inf
    ELSE IF IsNaN(a) \/ IsNaN(b) THEN NaN
    ELSE IF IsZero(b) THEN RAbs(a)
    ELSE IF IsZero(a) THEN RAbs(b)
    ELSE Rsqrt(HypotArg(a, b))

\* ---------------------------------------------------------------- complex

Cx(re, im) == [re |-> re, im |-> im]

\* a real operand of a complex operation is cast to x + 0j
OfReal(x) == Cx(x, Zero)
J == Cx(Zero, One)

Cadd(x, y) == Cx(RAdd(x.re, y.re), RAdd(x.im, y.im))

Cmul(x, y) ==
    Cx(RSub(RMul(x.re, y.re), RMul(x.im, y.im)),
       RAdd(RMul(x.re, y.im), RMul(x.im, y.re)))

\* numpy's complex true-divide (Smith's algorithm)
Cdiv(x, y) ==
    LET ar == RAbs(y.re)
        ai == RAbs(y.im)
    IN  IF RGe(ar, ai)
        THEN IF IsZero(ar) /\ IsZero(ai)
             THEN Cx(RDiv(x.re, ar), RDiv(x.im, ar))
             ELSE LET rat == RDiv(y.im, y.re)
                      scl == RDiv(One, RAdd(y.re, RMul(y.im, rat)))
                  IN  Cx(RMul(RAdd(x.re, RMul(x.im, rat)), scl),
                         RMul(RSub(x.im, RMul(x.re, rat)), scl))
        ELSE LET rat == RDiv(y.re, y.im)
                 scl == RDiv(One, RAdd(y.im, RMul(y.re, rat)))
             IN  Cx(RMul(RAdd(RMul(x.re, rat), x.im), scl),
                    RMul(RSub(RMul(x.im, rat), x.re), scl))

\* the radicand (|a| + hypot(a, b)) / 2 of the complex square root
CsqrtArg(z) == RDiv(RAdd(RAbs(z.re), Hypot(z.re, z.im)), Two)

\* the largest numerator or denominator whose square the model's 32-bit
\* integers hold
Limit == 30000
Fits(x) == x.n <= Limit /\ x.d <= Limit

\* the square root of z is taken exactly: its radicands have rational roots
CsqrtExact(z) ==
    IsFinite(z.re) /\ IsFinite(z.im) /\ ~(IsZero(z.re) /\ IsZero(z.im))
        => /\ \/ IsZero(z.re)
              \/ IsZero(z.im)
              \/ Fits(z.re) /\ Fits(z.im) /\ RsqrtExact(HypotArg(z.re, z.im))
           /\ RsqrtExact(CsqrtArg(z))

\* a variant taking the real square root of the real part
CsqrtOfReal(z) == Cx(Rsqrt(z.re), Zero)

\* numpy sqrt on a complex sample: the C99 principal square root
Csqrt(z) ==
    LET a == z.re
        b == z.im
        bb == RSub(b, b)
    IN  IF IsZero(a) /\ IsZero(b) THEN Cx(Zero, b)
        ELSE IF IsInf(b) THEN Cx(Inf, b)
        ELSE IF IsNaN(a) THEN Cx(a, NaN)
        ELSE IF IsInf(a)
             THEN IF a.s = -1
                  THEN Cx(RAbs(bb), RCopySign(a, b))
                  ELSE Cx(a, RCopySign(bb, b))
        ELSE LET t == Rsqrt(CsqrtArg(z)) IN
             IF RGe(a, Zero)
             THEN Cx(t, RDiv(b, RMul(Two, t)))
             ELSE IF IsNaN(b) THEN Cx(NaN, NaN)
             ELSE Cx(RDiv(RAbs(b), RMul(Two, t)), RCopySign(t, b))

\* ----------------------------------------------------------------- arrays
(***************************************************************************)
(* A numpy operand: a Python scalar (isarr FALSE, one element) or a 1-d    *)
(* array (isarr TRUE).  err names the exception an operation raised.       *)
(***************************************************************************)
Scalar(x) == [err |-> "", isarr |-> FALSE, a |-> <<x>>]
Array(seq) == [err |-> "", isarr |-> TRUE, a |-> seq]
Raised(e) == [err |-> e, isarr |-> FALSE, a |-> <<>>]
None == [err |-> "", isarr |-> FALSE, a |-> <<>>]

\* a variant that insists on equal lengths
CompatibleStrict(x, y) ==
    \/ ~x.isarr
    \/ ~y.isarr
    \/ Len(x.a) = Len(y.a)

\* numpy broadcasting of two operands of at most one dimension
Compatible(x, y) ==
    \/ ~x.isarr
    \/ ~y.isarr
    \/ Len(x.a) = Len(y.a)
    \/ Len(x.a) = 1
    \/ Len(y.a) = 1

BLen(x, y) == IF Len(x.a) >= Len(y.a) THEN Len(x.a) ELSE Len(y.a)
At(x, k) == IF Len(x.a) = 1 THEN x.a[1] ELSE x.a[k]

\* the operands of an elementwise binary operation, stretched to a common
\* length and paired sample by sample, or ValueError
Broadcast(x, y) ==
    IF x.err # "" THEN x
    ELSE IF y.err # "" THEN y
    ELSE IF ~Compatible(x, y) THEN Raised("ValueError")
    ELSE [err |-> "", isarr |-> x.isarr \/ y.isarr,
          a |-> [k \in 1..BLen(x, y) |-> <<At(x, k), At(y, k)>>]]

\* x + y, x*y and x/y on complex operands, x/y on real ones: new arrays
Add(x, y) ==
    LET p == Broadcast(x, y) IN
    IF p.err # "" THEN p
    ELSE [p EXCEPT !.a = [k \in DOMAIN @ |-> Cadd(@[k][1], @[k][2])]]

Mul(x, y) ==
    LET p == Broadcast(x, y) IN
    IF p.err # "" THEN p
    ELSE [p EXCEPT !.a = [k \in DOMAIN @ |-> Cmul(@[k][1], @[k][2])]]

Div(x, y) ==
    LET p == Broadcast(x, y) IN
    IF p.err # "" THEN p
    ELSE [p EXCEPT !.a = [k \in DOMAIN @ |-> Cdiv(@[k][1], @[k][2])]]

FDiv(x, y) ==
    LET p == Broadcast(x, y) IN
    IF p.err # "" THEN p
    ELSE [p EXCEPT !.a = [k \in DOMAIN @ |-> RDiv(@[k][1], @[k][2])]]

\* numpy real, imag and sqrt, elementwise
real(x) == IF x.err # "" THEN x ELSE [x EXCEPT !.a = [k \in DOMAIN @ |-> @[k].re]]
imag(x) == IF x.err # "" THEN x ELSE [x EXCEPT !.a = [k \in DOMAIN @ |-> @[k].im]]
sqrt(x) == IF x.err # "" THEN x ELSE [x EXCEPT !.a = [k \in DOMAIN @ |-> Csqrt(@[k])]]

\* the promotion of a real operand to complex
ToComplex(x) ==
    IF x.err # "" THEN x ELSE [x EXCEPT !.a = [k \in DOMAIN @ |-> OfReal(@[k])]]

\* the indices of an operand
Samples(x) == 1..Len(x.a)

\* ------------------------------------------------------ DistributedCircuit

\* the constant of the degeneracy guard, 1e-12, at the model's scale: like
\* 1e-12 a positive square, small against the positive parameter values
EPS == Q(1, 100)

\* a variant without the guard
GuardSampleOff(z) == z

\* Z[Z.imag == 0] += 1j*1e-12, on one sample
GuardSample(z) == IF IsZero(z.im) THEN Cadd(z, Cx(Zero, EPS)) ELSE z

\* the guard on every sample of a new array Z
Guard(x) ==
    IF x.err # "" THEN x
    ELSE [x EXCEPT !.a = [k \in DOMAIN @ |-> GuardSample(@[k])]]

\* a variant taking the reactive part from C
RawZFromC(self) ==
    Add(ToComplex(self.R),
        Mul(Mul(Scalar(J), ToComplex(self.frequency)),
            ToComplex(self.C)))

\* self.R + 1j*w*self.L, before the guard
RawZ(self) ==
    Add(ToComplex(self.R),
        Mul(Mul(Scalar(J), ToComplex(self.frequency)),
            ToComplex(self.L)))

\* a variant that keeps the R of construction time, the default 0
ZStale(self) == Guard(RawZ([self EXCEPT !.R = Scalar(Zero)]))

\* the property Z
Z(self) == Guard(RawZ(self))

\* self.G + 1j*w*self.C, before the guard
RawY(self) ==
    Add(ToComplex(self.G),
        Mul(Mul(Scalar(J), ToComplex(self.frequency)),
            ToComplex(self.C)))

\* the property Y
Y(self) == Guard(RawY(self))

\* the property z0_characteristic
z0_characteristic(self) == sqrt(Div(Z(self), Y(self)))

\* the property gamma
gamma(self) == sqrt(Mul(Z(self), Y(self)))

\* the constructor: the fields are stored as given
DistributedCircuit(frequency, z0_port, C, L, R, G) ==
    [frequency |-> frequency, z0_port |-> z0_port,
     C |-> C, L |-> L, R |-> R, G |-> G]

\* a variant with Z and Y exchanged
from_mediaSwapped(my_media) ==
    LET w == my_media.frequency
        Ym == Mul(my_media.gamma, my_media.z0)
        Zm == Div(my_media.gamma, my_media.z0)
    IN  DistributedCircuit(my_media.frequency, my_media.z0_port,
            FDiv(imag(Ym), w),
            FDiv(imag(Zm), w),
            real(Zm),
            real(Ym))

\* a variant that does not divide the reactive parts by w
from_mediaNoW(my_media) ==
    LET Ym == Div(my_media.gamma, my_media.z0)
        Zm == Mul(my_media.gamma, my_media.z0)
    IN  DistributedCircuit(my_media.frequency, my_media.z0_port,
            imag(Ym),
            imag(Zm),
            real(Zm),
            real(Ym))

\* a variant that special-cases DC: a reactive part of 0 where w is 0
RDivOrZero(x, w) == IF IsZero(w) THEN Zero ELSE RDiv(x, w)
FDivOrZero(x, y) ==
    LET p == Broadcast(x, y) IN
    IF p.err # "" THEN p
    ELSE [p EXCEPT !.a = [k \in DOMAIN @ |-> RDivOrZero(@[k][1], @[k][2])]]
from_mediaDC(my_media) ==
    LET w == my_media.frequency
        Ym == Div(my_media.gamma, my_media.z0)
        Zm == Mul(my_media.gamma, my_media.z0)
    IN  DistributedCircuit(my_media.frequency, my_media.z0_port,
            FDivOrZero(imag(Ym), w),
            FDivOrZero(imag(Zm), w),
            real(Zm),
            real(Ym))

\* the class method from_media
from_media(my_media) ==
    LET w == my_media.frequency
        Ym == Div(my_media.gamma, my_media.z0)
        Zm == Mul(my_media.gamma, my_media.z0)
    IN  DistributedCircuit(my_media.frequency, my_media.z0_port,
            FDiv(imag(Ym), w),
            FDiv(imag(Zm), w),
            real(Zm),
            real(Ym))

\* the rendering of one parameter by the format specification .2f: a
\* Python scalar is rendered in hundredths (round-half-even), an array or a
\* list raises TypeError
Hundredths(x) ==
    IF ~IsFinite(x) THEN x
    ELSE LET q == (100 * x.n) \div x.d
             r == (100 * x.n) % x.d
             up == 2 * r > x.d \/ (2 * r = x.d /\ q % 2 = 1)
         IN  [s |-> x.s, n |-> IF up THEN q + 1 ELSE q, d |-> 100]

Format2f(v) == IF v.isarr THEN Raised("TypeError") ELSE Scalar(Hundredths(v.a[1]))

\* one of the two f-strings of __str__: the four parameters in the order
\* L, C, R, G, each followed by `mark`; the first failing format raises
Render(self, mark) ==
    LET parts == <<Format2f(self.L), Format2f(self.C),
                   Format2f(self.R), Format2f(self.G)>>
    IN  IF \E i \in 1..4 : parts[i].err # ""
        THEN Raised("TypeError")
        ELSE [err |-> "", isarr |-> FALSE,
              a |-> [i \in 1..4 |-> [num |-> parts[i].a[1], mark |-> mark]]]

\* __str__ and __repr__: the scalar form, and on TypeError the second
\* f-string, which formats the same values with the same specification
str(self) ==
    IF Render(self, "").err = "TypeError"
    THEN Render(self, "..")
    ELSE Render(self, "")

\* ------------------------------------------------------------ the program

VARIABLES
    mode,     \* the DistributedCircuit under use
    media,    \* the external media given to from_media, or NoMedia
    m1,       \* the mode whose gamma and z0 that media carries, or NoMode
    op,       \* the last operation
    ret,      \* what it returned or raised
    heap,     \* concurrent readers: the arrays in memory, by address
    th        \* concurrent readers: each reader's position and locals

vars == <<mode, media, m1, op, ret, heap, th>>

\* bounds of the exploration
MaxN == 2
MaxLen == 3

NoMode == DistributedCircuit(None, None, None, None, None, None)
NoMedia == [frequency |-> None, z0_port |-> None, gamma |-> None, z0 |-> None]

\* frequency grids: one sample, and MaxN samples with and without DC
Grid(n, first) == Array([k \in 1..n |-> Q(k - 1 + first, 1)])
Grids == {Grid(1, 1)} \cup {Grid(MaxN, first) : first \in {0, 1}}

\* parameter values: Python scalars, and arrays 0, 1, 4, .. of each length
S(p) == Scalar(Q(p, 1))
Vec(n) == Array([k \in 1..n |-> Q((k - 1) * (k - 1), 1)])
Vectors == {Vec(n) : n \in 1..MaxLen}
LValues == {S(0), S(1), S(4), S(-1)} \cup Vectors
RValues == {S(0), S(1), S(-1), Vec(2)}
CValues == {S(1), S(4), S(-1), Vec(MaxLen)}
GValues == {S(0), S(1), S(4), S(-1)}

\* per-sample (gamma, z0) of the external medias
Pairs ==
    << <<Cx(Q(1, 1), Q(1, 1)), Cx(Q(1, 1), Zero)>>,
       <<Cx(Zero, Q(2, 1)), Cx(Q(2, 1), Zero)>>,
       <<Cx(Q(2, 1), Q(1, 1)), Cx(Q(1, 1), Q(1, 1))>>,
       <<Cx(Q(-1, 1), Q(-1, 1)), Cx(Q(1, 1), Zero)>>,
       <<Cx(Q(1, 1), Q(1, 1)), Cx(Q(-1, 1), Zero)>>,
       <<Cx(Q(1, 1), Zero), Cx(Q(1, 1), Zero)>>,
       <<Cx(Q(1, 1), Q(1, 1)), Cx(Zero, Zero)>> >>

PairAt(i, k) == Pairs[((i + k - 2) % Len(Pairs)) + 1]

Ports == {None, Scalar(Q(50, 1))}

\* the external medias: sample k carries the pair i + k - 1
Medias ==
    { [frequency |-> f, z0_port |-> p,
       gamma |-> Array([k \in 1..Len(f.a) |-> PairAt(i, k)[1]]),
       z0 |-> Array([k \in 1..Len(f.a) |-> PairAt(i, k)[2]])] :
      f \in Grids, p \in Ports, i \in 1..Len(Pairs) }

\* every square root of the elementwise sqrt of x is rational
ExactRoots(x) == x.err = "" => \A k \in 1..Len(x.a) : CsqrtExact(x.a[k])
ExactMode(self) ==
    /\ ExactRoots(Mul(Z(self), Y(self)))
    /\ ExactRoots(Div(Z(self), Y(self)))

\* an external media carrying the gamma and z0_characteristic of a mode
MediaOf(self) ==
    [frequency |-> self.frequency, z0_port |-> self.z0_port,
     gamma |-> gamma(self), z0 |-> z0_characteristic(self)]

\* the modes the constructor is explored on (G is left at its default, 0,
\* and takes its other values by assignment) and those from_media returns
Constructed ==
    {DistributedCircuit(f, None, C, L, R, S(0)) :
        f \in Grids, C \in CValues, L \in LValues, R \in RValues}
Assigned == {[m EXCEPT !.G = G] : m \in Constructed, G \in GValues}
Converted == {from_media(m) : m \in Medias}

\* among them, the modes whose gamma and z0_characteristic have rational
\* roots (tabulated once)
ExactAssigned == {m : m \in {x \in Assigned : ExactMode(x)}}
Returned == {from_media(MediaOf(m)) : m \in {x \in ExactAssigned : gamma(x).err = ""}}
RootModes ==
    ExactAssigned \cup {m : m \in {x \in Converted \cup Returned : ExactMode(x)}}

\* concurrent readers: two threads, the addresses of the stored arrays and
\* each thread's addresses for the arrays it allocates
Threads == {"t1", "t2"}
Shared == {"w", "R", "L", "G", "C"}
Arena == [t1 |-> <<"t1.a", "t1.b", "t1.c">>, t2 |-> <<"t2.a", "t2.b", "t2.c">>]
ArenaOf(t) == {Arena[t][i] : i \in 1..Len(Arena[t])}
Addrs == Shared \cup UNION {ArenaOf(t) : t \in Threads}

Free == Raised("free")
NoAddr == ""
Idle ==
    [read |-> "none", sub |-> "none", step |-> "idle", w |-> NoAddr,
     x |-> NoAddr, z |-> NoAddr, zres |-> NoAddr, yres |-> NoAddr,
     mask |-> {}, tmp |-> <<>>, result |-> None]

\* nothing is constructed yet
Init ==
    /\ heap = [a \in Addrs |-> Free]
    /\ th = [t \in Threads |-> Idle]
    /\ mode = NoMode
    /\ media = NoMedia
    /\ m1 = NoMode
    /\ op = "start"
    /\ ret = None

\* DistributedCircuit(frequency, C=.., L=.., R=.., G=..)
Construct ==
    /\ op = "start"
    /\ mode' \in Constructed
    /\ op' = "init"
    /\ ret' = None
    /\ UNCHANGED <<media, m1, heap, th>>

\* DistributedCircuit.from_media(m) on an external media of given gamma, z0
FromMedia ==
    /\ op = "start"
    /\ \E m \in Medias :
          /\ media' = m
          /\ mode' = from_media(m)
    /\ op' = "from_media"
    /\ ret' = None
    /\ UNCHANGED <<m1, heap, th>>

\* from_media on an external media built from this mode's gamma and z0
RoundTrip ==
    /\ op # "start"
    /\ media = NoMedia
    /\ mode \in RootModes
    /\ gamma(mode).err = ""
    /\ media' = MediaOf(mode)
    /\ m1' = mode
    /\ mode' = from_media(media')
    /\ op' = "from_media"
    /\ ret' = None
    /\ UNCHANGED <<heap, th>>

SetR(v) ==
    /\ op # "start"
    /\ media = NoMedia
    /\ mode' = [mode EXCEPT !.R = v]
    /\ op' = "set"
    /\ ret' = None
    /\ UNCHANGED <<media, m1, heap, th>>

SetL(v) ==
    /\ op # "start"
    /\ media = NoMedia
    /\ mode' = [mode EXCEPT !.L = v]
    /\ op' = "set"
    /\ ret' = None
    /\ UNCHANGED <<media, m1, heap, th>>

SetG(v) ==
    /\ op # "start"
    /\ media = NoMedia
    /\ mode' = [mode EXCEPT !.G = v]
    /\ op' = "set"
    /\ ret' = None
    /\ UNCHANGED <<media, m1, heap, th>>

SetC(v) ==
    /\ op # "start"
    /\ media = NoMedia
    /\ mode' = [mode EXCEPT !.C = v]
    /\ op' = "set"
    /\ ret' = None
    /\ UNCHANGED <<media, m1, heap, th>>

ReadZ ==
    /\ op # "start"
    /\ op' = "Z"
    /\ ret' = Z(mode)
    /\ UNCHANGED <<mode, media, m1, heap, th>>

ReadY ==
    /\ op # "start"
    /\ op' = "Y"
    /\ ret' = Y(mode)
    /\ UNCHANGED <<mode, media, m1, heap, th>>

ReadZ0 ==
    /\ op # "start"
    /\ mode \in RootModes
    /\ op' = "z0_characteristic"
    /\ ret' = z0_characteristic(mode)
    /\ UNCHANGED <<mode, media, m1, heap, th>>

ReadGamma ==
    /\ op # "start"
    /\ mode \in RootModes
    /\ op' = "gamma"
    /\ ret' = gamma(mode)
    /\ UNCHANGED <<mode, media, m1, heap, th>>

Str ==
    /\ op # "start"
    /\ op' = "str"
    /\ ret' = str(mode)
    /\ UNCHANGED <<mode, media, m1, heap, th>>

Next ==
    \/ Construct
    \/ FromMedia
    \/ RoundTrip
    \/ \E v \in RValues : SetR(v)
    \/ \E v \in LValues : SetL(v)
    \/ \E v \in GValues : SetG(v)
    \/ \E v \in CValues : SetC(v)
    \/ ReadZ
    \/ ReadY
    \/ ReadZ0
    \/ ReadGamma
    \/ Str

Spec == Init /\ [][Next]_vars

\* ------------------------------------------------------ concurrent readers
(***************************************************************************)
(* Two threads read Z, Y, gamma and z0_characteristic of one mode that no  *)
(* one assigns to.  A read is followed expression by expression: every     *)
(* numpy operation of the property bodies is one step, which reads its     *)
(* operands from memory and stores its result at an address.               *)
(***************************************************************************)

\* the modes the readers share: on a grid with a DC sample, with roots the
\* model takes exactly and no shape error
ConcModes ==
    {m \in ExactAssigned :
        /\ m.frequency = Grid(MaxN, 0)
        /\ m.G = S(0)
        /\ m.C = S(1)
        /\ gamma(m).err = ""}

Props == {"Z", "Y", "gamma", "z0_characteristic"}

\* the parameters a property body reads: R and L in Z, G and C in Y
Ser(sub) == IF sub = "Z" THEN "R" ELSE "G"
Rea(sub) == IF sub = "Z" THEN "L" ELSE "C"

\* the lowest free address of the thread's allocations
Fresh(t) ==
    Arena[t][CHOOSE i \in 1..Len(Arena[t]) :
                /\ heap[Arena[t][i]] = Free
                /\ \A j \in 1..(i - 1) : heap[Arena[t][j]] # Free]

\* a variant accumulating the sum in place, into the first operand
SumIntoOperand(t, ser) == ser

\* where self.R + 1j*w*self.L puts its result: a new array
SumInto(t, ser) == Fresh(t)

InitC ==
    /\ mode \in ConcModes
    /\ media = NoMedia
    /\ m1 = NoMode
    /\ op = "init"
    /\ ret = None
    /\ heap = [a \in Addrs |->
                 CASE a = "w" -> mode.frequency
                   [] a = "R" -> mode.R
                   [] a = "L" -> mode.L
                   [] a = "G" -> mode.G
                   [] a = "C" -> mode.C
                   [] OTHER -> Free]
    /\ th = [t \in Threads |-> Idle]

\* the thread starts reading the property p
Begin(t, p) ==
    /\ th[t].step = "idle"
    /\ th' = [th EXCEPT ![t].read = p,
                        ![t].sub = IF p = "Y" THEN "Y" ELSE "Z",
                        ![t].step = "w"]
    /\ UNCHANGED <<mode, media, m1, op, ret, heap>>

\* w = self.frequency.w
LoadW(t) ==
    /\ th[t].step = "w"
    /\ th' = [th EXCEPT ![t].w = "w", ![t].step = "jw"]
    /\ UNCHANGED <<mode, media, m1, op, ret, heap>>

\* 1j*w
MulJW(t) ==
    /\ th[t].step = "jw"
    /\ LET a == Fresh(t) IN
       /\ heap' = [heap EXCEPT
                     ![a] = Mul(Scalar(J), ToComplex(heap[th[t].w]))]
       /\ th' = [th EXCEPT ![t].x = a, ![t].w = NoAddr, ![t].step = "jwl"]
    /\ UNCHANGED <<mode, media, m1, op, ret>>

\* (1j*w)*self.L, or *self.C; the operand 1j*w is released
MulL(t) ==
    /\ th[t].step = "jwl"
    /\ LET b == Fresh(t) IN
       /\ heap' = [heap EXCEPT
                     ![b] = Mul(heap[th[t].x],
                                ToComplex(heap[Rea(th[t].sub)])),
                     ![th[t].x] = Free]
       /\ th' = [th EXCEPT ![t].x = b, ![t].step = "sum"]
    /\ UNCHANGED <<mode, media, m1, op, ret>>

\* Z = self.R + ..., or Y = self.G + ...
Sum(t) ==
    /\ th[t].step = "sum"
    /\ LET c == SumInto(t, Ser(th[t].sub))
           v == Add(ToComplex(heap[Ser(th[t].sub)]), heap[th[t].x])
       IN
       /\ heap' = [[heap EXCEPT ![th[t].x] = Free] EXCEPT ![c] = v]
       /\ th' = [th EXCEPT ![t].z = c, ![t].x = NoAddr, ![t].step = "mask"]
    /\ UNCHANGED <<mode, media, m1, op, ret>>

\* Z.imag == 0
Mask(t) ==
    /\ th[t].step = "mask"
    /\ th' = [th EXCEPT
                ![t].mask = {k \in Samples(heap[th[t].z]) :
                                IsZero(heap[th[t].z].a[k].im)},
                ![t].step = "add"]
    /\ UNCHANGED <<mode, media, m1, op, ret, heap>>

\* Z[mask] + 1j*1e-12: the selected samples are copied out and added to
AddEps(t) ==
    /\ th[t].step = "add"
    /\ th' = [th EXCEPT
                ![t].tmp = [k \in Samples(heap[th[t].z]) |->
                              IF k \in th[t].mask
                              THEN Cadd(heap[th[t].z].a[k], Cx(Zero, EPS))
                              ELSE Cx(Zero, Zero)],
                ![t].step = "store"]
    /\ UNCHANGED <<mode, media, m1, op, ret, heap>>

\* Z[mask] = ...: the write in place
Store(t) ==
    /\ th[t].step = "store"
    /\ heap' = [heap EXCEPT
                  ![th[t].z].a = [k \in DOMAIN @ |->
                                    IF k \in th[t].mask
                                    THEN th[t].tmp[k] ELSE @[k]]]
    /\ th' = [th EXCEPT ![t].mask = {}, ![t].tmp = <<>>, ![t].step = "ret"]
    /\ UNCHANGED <<mode, media, m1, op, ret>>

\* return Z (return Y): to the caller of the read, or to the body of gamma
\* or z0_characteristic, which goes on to self.Y and then to the root
Return(t) ==
    /\ th[t].step = "ret"
    /\ IF th[t].read = th[t].sub
       THEN /\ th' = [th EXCEPT ![t].result = heap[th[t].z],
                                ![t].z = NoAddr, ![t].step = "done"]
            /\ heap' = [heap EXCEPT ![th[t].z] = Free]
       ELSE /\ th' = [th EXCEPT
                        ![t].zres = IF th[t].sub = "Z" THEN th[t].z ELSE @,
                        ![t].yres = IF th[t].sub = "Y" THEN th[t].z ELSE @,
                        ![t].z = NoAddr,
                        ![t].sub = IF th[t].sub = "Z" THEN "Y" ELSE "root",
                        ![t].step = IF th[t].sub = "Z" THEN "w" ELSE "op"]
            /\ heap' = heap
    /\ UNCHANGED <<mode, media, m1, op, ret>>

\* self.Z*self.Y in gamma, self.Z/self.Y in z0_characteristic
Combine(t) ==
    /\ th[t].step = "op"
    /\ LET a == th[t].zres
           b == th[t].yres
           c == Fresh(t)
           v == IF th[t].read = "gamma"
                THEN Mul(heap[a], heap[b])
                ELSE Div(heap[a], heap[b])
       IN
       /\ heap' = [heap EXCEPT ![c] = v, ![a] = Free, ![b] = Free]
       /\ th' = [th EXCEPT ![t].x = c, ![t].zres = NoAddr,
                           ![t].yres = NoAddr, ![t].step = "sqrt"]
    /\ UNCHANGED <<mode, media, m1, op, ret>>

\* sqrt(...), returned to the caller
Sqrt(t) ==
    /\ th[t].step = "sqrt"
    /\ th' = [th EXCEPT ![t].result = sqrt(heap[th[t].x]),
                        ![t].x = NoAddr, ![t].step = "done"]
    /\ heap' = [heap EXCEPT ![th[t].x] = Free]
    /\ UNCHANGED <<mode, media, m1, op, ret>>

\* the caller drops the value; the thread may read again
Finish(t) ==
    /\ th[t].step = "done"
    /\ th' = [th EXCEPT ![t] = Idle]
    /\ UNCHANGED <<mode, media, m1, op, ret, heap>>

NextC ==
    \/ \E t \in Threads, p \in Props : Begin(t, p)
    \/ \E t \in Threads : LoadW(t)
    \/ \E t \in Threads : MulJW(t)
    \/ \E t \in Threads : MulL(t)
    \/ \E t \in Threads : Sum(t)
    \/ \E t \in Threads : Mask(t)
    \/ \E t \in Threads : AddEps(t)
    \/ \E t \in Threads : Store(t)
    \/ \E t \in Threads : Return(t)
    \/ \E t \in Threads : Combine(t)
    \/ \E t \in Threads : Sqrt(t)
    \/ \E t \in Threads : Finish(t)

SpecC == InitC /\ [][NextC]_vars

\* ------------------------------------------------------------- properties

CEq(x, y) == REq(x.re, y.re) /\ REq(x.im, y.im)

\* every stored parameter and every grid point is a finite number
FiniteMode(self) ==
    \A p \in {self.frequency, self.R, self.L, self.G, self.C} :
        \A k \in Samples(p) : IsFinite(p.a[k])

\* C1: every sample of Z' and of Y' that a read returns has a non-zero
\* imaginary part, and where the imaginary part before the guard is zero
\* the returned imaginary part is exactly the guard constant
C1_GuardedImag ==
    /\ (op = "Z" /\ ret.err = "") =>
          \A k \in Samples(ret) :
              /\ ~IsZero(ret.a[k].im)
              /\ IsZero(RawZ(mode).a[k].im) => ret.a[k].im = EPS
    /\ (op = "Y" /\ ret.err = "") =>
          \A k \in Samples(ret) :
              /\ ~IsZero(ret.a[k].im)
              /\ IsZero(RawY(mode).a[k].im) => ret.a[k].im = EPS

\* a read of Z' on a grid with a DC sample, nudged there
C1_Witness ==
    /\ op = "Z"
    /\ ret.err = ""
    /\ IsZero(mode.frequency.a[1])
    /\ IsZero(RawZ(mode).a[1].im)
    /\ ret.a[1].im = EPS

\* sample k of Z' (or Y') written out from a series part r, a reactive
\* part l and the angular frequency wk
RefSample(r, l, wk) ==
    Cx(r, IF IsZero(RMul(wk, l)) THEN EPS ELSE RMul(wk, l))
RefZ(self, k) ==
    RefSample(At(self.R, k), At(self.L, k), At(self.frequency, k))
RefY(self, k) ==
    RefSample(At(self.G, k), At(self.C, k), At(self.frequency, k))

\* C4: what a read of Z', Y', Z0 or gamma returns is determined by the
\* values of R', L', G', C' stored at the time of the read, assignments
\* made since construction included
C4_ReadsCurrent ==
    (FiniteMode(mode) /\ ret.err = "") =>
        /\ op = "Z" => \A k \in Samples(ret) : CEq(ret.a[k], RefZ(mode, k))
        /\ op = "Y" => \A k \in Samples(ret) : CEq(ret.a[k], RefY(mode, k))
        /\ op = "gamma" =>
              \A k \in Samples(ret) :
                  CEq(Cmul(ret.a[k], ret.a[k]),
                      Cmul(RefZ(mode, k), RefY(mode, k)))
        /\ op = "z0_characteristic" =>
              \A k \in Samples(ret) :
                  CEq(Cmul(ret.a[k], ret.a[k]),
                      Cdiv(RefZ(mode, k), RefY(mode, k)))

\* a read of Y' that shows a G' stored by assignment (the constructor was
\* given none) and a read of Z' that shows an R' other than the default
C4_Witness ==
    /\ op = "Y"
    /\ ret.err = ""
    /\ media = NoMedia
    /\ mode.G = S(4)
    /\ mode.C = S(1)
    /\ \A k \in Samples(ret) : ret.a[k].re = Q(4, 1)

\* C5 (amended): with finite parameters Re(Z') = R' at every sample, and
\* Im(Z')/w = L' at the samples where w*L' is not zero; where w*L' is zero
\* Im(Z') is the guard constant, whatever R' is.  The same for Y', G', C'.
C5_Parts ==
    (FiniteMode(mode) /\ ret.err = "") =>
        /\ op = "Z" =>
              \A k \in Samples(ret) :
                  LET w == At(mode.frequency, k)
                      l == At(mode.L, k)
                  IN  /\ REq(ret.a[k].re, At(mode.R, k))
                      /\ ~IsZero(RMul(w, l)) => REq(RDiv(ret.a[k].im, w), l)
                      /\ IsZero(RMul(w, l)) => ret.a[k].im = EPS
        /\ op = "Y" =>
              \A k \in Samples(ret) :
                  LET w == At(mode.frequency, k)
                      c == At(mode.C, k)
                  IN  /\ REq(ret.a[k].re, At(mode.G, k))
                      /\ ~IsZero(RMul(w, c)) => REq(RDiv(ret.a[k].im, w), c)
                      /\ IsZero(RMul(w, c)) => ret.a[k].im = EPS

\* a read of Z' with R' = 1 and L' = 0 away from DC: Im(Z') is the guard
\* constant, not w*L'
C5_Witness ==
    /\ op = "Z"
    /\ ret.err = ""
    /\ mode.R = S(1)
    /\ mode.L = S(0)
    /\ ~IsZero(mode.frequency.a[1])
    /\ CEq(ret.a[1], Cx(One, EPS))

\* C5 as stated: Im(Z')/w = L' whenever L' or R' is not zero
C5_AsStated ==
    (FiniteMode(mode) /\ ret.err = "") =>
        /\ op = "Z" =>
              \A k \in Samples(ret) :
                  LET w == At(mode.frequency, k)
                      l == At(mode.L, k)
                      r == At(mode.R, k)
                  IN  /\ REq(ret.a[k].re, r)
                      /\ (~IsZero(l) \/ ~IsZero(r)) =>
                             REq(RDiv(ret.a[k].im, w), l)
        /\ op = "Y" =>
              \A k \in Samples(ret) :
                  LET w == At(mode.frequency, k)
                      c == At(mode.C, k)
                      g == At(mode.G, k)
                  IN  /\ REq(ret.a[k].re, g)
                      /\ (~IsZero(c) \/ ~IsZero(g)) =>
                             REq(RDiv(ret.a[k].im, w), c)

\* the lengths of the array operands among xs, and whether numpy broadcasts
\* them together: at most one length other than 1
Lens(xs) == {Len(x.a) : x \in {y \in xs : y.isarr}}
Broadcastable(xs) == Cardinality(Lens(xs) \ {1}) <= 1

\* C7 (amended): a read of Z' raises the shape error exactly when the
\* lengths of the grid and of the vectors among R', L' do not broadcast
\* together, and a read of Y' exactly when those of the grid and of the
\* vectors among G', C' do not; a vector of length 1, and any vector on a
\* grid of one point, is stretched without an error
C7_ShapeError ==
    /\ op = "Z" =>
          (ret.err = "ValueError" <=>
              ~Broadcastable({mode.frequency, mode.R, mode.L}))
    /\ op = "Y" =>
          (ret.err = "ValueError" <=>
              ~Broadcastable({mode.frequency, mode.G, mode.C}))

\* a mode constructed with an L' of three entries on a grid of two points:
\* accepted at construction, the first read of Z' raises
C7_Witness ==
    /\ op = "Z"
    /\ Len(mode.frequency.a) = 2
    /\ mode.L.isarr
    /\ Len(mode.L.a) = 3
    /\ ret.err = "ValueError"

\* some vector among ps differs in length from the grid or from another
Mismatch(self, ps) ==
    \/ \E p \in ps : p.isarr /\ Len(p.a) # Len(self.frequency.a)
    \/ \E p, q \in ps : p.isarr /\ q.isarr /\ Len(p.a) # Len(q.a)

\* C7 as stated: every length mismatch is reported at the read
C7_AsStated ==
    /\ (op = "Z" /\ Mismatch(mode, {mode.R, mode.L})) => ret.err = "ValueError"
    /\ (op = "Y" /\ Mismatch(mode, {mode.G, mode.C})) => ret.err = "ValueError"

IsVector(self) == self.L.isarr \/ self.C.isarr \/ self.R.isarr \/ self.G.isarr

\* C8 as stated: the rendering never fails; with scalar parameters every
\* value is rendered to two decimals without a mark, and with a vector
\* parameter the fallback form is produced, each value followed by ".."
C8_AsStated ==
    op = "str" =>
        /\ ret.err = ""
        /\ \A i \in 1..4 :
              ret.a[i].mark = (IF IsVector(mode) THEN ".." ELSE "")

\* every stored parameter and grid point is finite, non-negative, and no
\* negative zero
Physical(self) ==
    \A p \in {self.frequency, self.R, self.L, self.G, self.C} :
        \A k \in Samples(p) : IsFinite(p.a[k]) /\ p.a[k].s = 1

\* g is the root of rad that numpy returns: it squares to rad, its real
\* part is not negative, and on a zero real part its imaginary part has the
\* sign of the imaginary part of rad, which may be a negative zero
RootOf(g, rad) ==
    /\ CEq(Cmul(g, g), rad)
    /\ RGe(g.re, Zero)
    /\ IsZero(g.re) => g.im.s = rad.im.s

\* C6 (amended): with finite parameters gamma squares to Z'Y' and Z0 to
\* Z'/Y', both with a real part that is not negative; a zero real part comes
\* with an imaginary part of the sign of the radicand's (signed zero)
\* imaginary part, which is not negative when R', L', G', C' and w are not
C6_Roots ==
    (FiniteMode(mode) /\ ret.err = "") =>
        /\ op = "gamma" =>
              \A k \in Samples(ret) :
                  LET rad == Mul(Z(mode), Y(mode)).a[k] IN
                  /\ RootOf(ret.a[k], rad)
                  /\ (Physical(mode) /\ IsZero(ret.a[k].re)) =>
                         RGe(ret.a[k].im, Zero)
        /\ op = "z0_characteristic" =>
              \A k \in Samples(ret) :
                  LET rad == Div(Z(mode), Y(mode)).a[k] IN
                  /\ RootOf(ret.a[k], rad)
                  /\ (Physical(mode) /\ IsZero(ret.a[k].re)) =>
                         RGe(ret.a[k].im, Zero)

\* gamma of a lossless line, L' = C' = 1: purely imaginary, j*w
C6_Witness ==
    /\ op = "gamma"
    /\ ret.err = ""
    /\ Physical(mode)
    /\ mode.R = S(0) /\ mode.G = S(0) /\ mode.L = S(1) /\ mode.C = S(1)
    /\ \E k \in Samples(ret) :
          /\ ~IsZero(mode.frequency.a[k])
          /\ ret.a[k] = Cx(Zero, mode.frequency.a[k])

\* C6 as stated, on finite parameters: a zero real part always comes with
\* a non-negative imaginary part
C6_AsStated ==
    (FiniteMode(mode) /\ ret.err = "") =>
        /\ op = "gamma" =>
              \A k \in Samples(ret) :
                  /\ CEq(Cmul(ret.a[k], ret.a[k]),
                         Mul(Z(mode), Y(mode)).a[k])
                  /\ RGe(ret.a[k].re, Zero)
                  /\ IsZero(ret.a[k].re) => RGe(ret.a[k].im, Zero)
        /\ op = "z0_characteristic" =>
              \A k \in Samples(ret) :
                  /\ CEq(Cmul(ret.a[k], ret.a[k]),
                         Div(Z(mode), Y(mode)).a[k])
                  /\ RGe(ret.a[k].re, Zero)
                  /\ IsZero(ret.a[k].re) => RGe(ret.a[k].im, Zero)

\* the (gamma, z0) of a sample are principal-branch values: Re(z0) > 0, and
\* Re(gamma) > 0 or gamma = j*b, b > 0, with z0 real
PrincipalPair(g, z) ==
    /\ RLt(Zero, z.re)
    /\ \/ RLt(Zero, g.re)
       \/ IsZero(g.re) /\ RLt(Zero, g.im) /\ IsZero(z.im)

\* the guards of Z' and Y' leave gamma*z0 and gamma/z0 alone
NotNudged(g, z) == ~IsZero(Cmul(g, z).im) /\ ~IsZero(Cdiv(g, z).im)

\* C2 (amended): the gamma and Z0 of the mode from_media returns equal the
\* given ones at every sample off DC where the given pair is made of
\* principal-branch values and gamma*Z0 and gamma/Z0 both have a non-zero
\* imaginary part
C2_RoundTrip ==
    (/\ media # NoMedia
     /\ mode = from_media(media)
     /\ op \in {"gamma", "z0_characteristic"}
     /\ ret.err = "") =>
        \A k \in Samples(ret) :
            LET g == media.gamma.a[k]
                z == media.z0.a[k]
            IN  (/\ RLt(Zero, At(media.frequency, k))
                 /\ PrincipalPair(g, z)
                 /\ NotNudged(g, z)) =>
                    /\ op = "gamma" => CEq(ret.a[k], g)
                    /\ op = "z0_characteristic" => CEq(ret.a[k], z)

\* the given gamma = 2+j, z0 = 1+j come back
C2_Witness ==
    /\ op = "gamma"
    /\ m1 = NoMode
    /\ media # NoMedia
    /\ RLt(Zero, media.frequency.a[1])
    /\ media.gamma.a[1] = Cx(Q(2, 1), Q(1, 1))
    /\ media.z0.a[1] = Cx(Q(1, 1), Q(1, 1))
    /\ ret.err = ""
    /\ ret.a[1] = Cx(Q(2, 1), Q(1, 1))

\* C2 as stated: any complex vectors on a grid without DC come back
C2_AsStated ==
    (/\ media # NoMedia
     /\ mode = from_media(media)
     /\ op \in {"gamma", "z0_characteristic"}
     /\ \A k \in Samples(media.frequency) :
           RLt(Zero, media.frequency.a[k])) =>
        /\ ret.err = ""
        /\ \A k \in Samples(ret) :
              /\ op = "gamma" => CEq(ret.a[k], media.gamma.a[k])
              /\ op = "z0_characteristic" => CEq(ret.a[k], media.z0.a[k])

ScalarMode(self) ==
    ~self.R.isarr /\ ~self.L.isarr /\ ~self.G.isarr /\ ~self.C.isarr

OffDC(self) == \A k \in Samples(self.frequency) : RLt(Zero, self.frequency.a[k])

\* the mode from_media returned holds, at every sample, the scalar R', L',
\* G', C' of the mode m
SameRLGC(self, m) ==
    /\ self.R.err = "" /\ self.L.err = "" /\ self.G.err = "" /\ self.C.err = ""
    /\ \A k \in Samples(self.frequency) :
          /\ REq(self.R.a[k], m.R.a[1])
          /\ REq(self.L.a[k], m.L.a[1])
          /\ REq(self.G.a[k], m.G.a[1])
          /\ REq(self.C.a[k], m.C.a[1])

\* C3 (amended): a mode of scalar R', G' >= 0 and L', C' > 0 on a grid
\* without DC comes back from from_media of its own gamma and Z0 with the
\* same R', L', G', C' at every sample
C3_RoundTrip ==
    (/\ op = "from_media"
     /\ m1 # NoMode
     /\ ScalarMode(m1)
     /\ OffDC(m1)
     /\ Physical(m1)
     /\ ~IsZero(m1.L.a[1])
     /\ ~IsZero(m1.C.a[1])) => SameRLGC(mode, m1)

\* the lossy mode R' = L' = G' = C' = 1 on the grid 1, 2 comes back
C3_Witness ==
    /\ op = "from_media"
    /\ m1 # NoMode
    /\ m1.R = S(1) /\ m1.L = S(1) /\ m1.G = S(1) /\ m1.C = S(1)
    /\ Len(m1.frequency.a) = 2
    /\ OffDC(m1)
    /\ mode.R = Array(<<One, One>>)
    /\ mode.L = Array(<<One, One>>)

\* C3 as stated: any scalar mode on a grid without DC comes back
C3_AsStated ==
    (/\ op = "from_media"
     /\ m1 # NoMode
     /\ ScalarMode(m1)
     /\ FiniteMode(m1)
     /\ OffDC(m1)) => SameRLGC(mode, m1)

\* the media reduced to its sample k
OneSample(m, k) ==
    [frequency |-> Array(<<At(m.frequency, k)>>), z0_port |-> m.z0_port,
     gamma |-> Array(<<m.gamma.a[k]>>), z0 |-> Array(<<m.z0.a[k]>>)]

\* C10: from_media on a grid with a DC sample raises nothing; at the DC
\* sample L' and C' are non-finite and R' = Re(gamma*Z0), G' = Re(gamma/Z0);
\* every other sample holds what from_media gives for that sample alone;
\* the grid and the port impedance are carried over
C10_DC ==
    (op = "from_media" /\ media # NoMedia) =>
        /\ mode.frequency = media.frequency
        /\ mode.z0_port = media.z0_port
        /\ mode.R.err = "" /\ mode.L.err = ""
        /\ mode.G.err = "" /\ mode.C.err = ""
        /\ \A k \in Samples(media.gamma) :
              IF IsZero(At(media.frequency, k))
              THEN /\ ~IsFinite(mode.L.a[k])
                   /\ ~IsFinite(mode.C.a[k])
                   /\ mode.R.a[k] = Cmul(media.gamma.a[k], media.z0.a[k]).re
                   /\ mode.G.a[k] = Cdiv(media.gamma.a[k], media.z0.a[k]).re
              ELSE LET one == from_media(OneSample(media, k)) IN
                   /\ mode.R.a[k] = one.R.a[1]
                   /\ mode.L.a[k] = one.L.a[1]
                   /\ mode.G.a[k] = one.G.a[1]
                   /\ mode.C.a[k] = one.C.a[1]

\* an external media on the grid 0, 1: L' and C' non-finite at DC only
C10_Witness ==
    /\ op = "from_media"
    /\ m1 = NoMode
    /\ media # NoMedia
    /\ media.z0_port = Scalar(Q(50, 1))
    /\ Len(media.frequency.a) >= 2
    /\ IsZero(media.frequency.a[1])
    /\ ~IsFinite(mode.L.a[1]) /\ ~IsFinite(mode.C.a[1])
    /\ IsFinite(mode.R.a[1]) /\ IsFinite(mode.G.a[1])
    /\ IsFinite(mode.L.a[2]) /\ IsFinite(mode.C.a[2])

\* the value a single sequential read of the property returns
Sequential(self, p) ==
    CASE p = "Z" -> Z(self)
      [] p = "Y" -> Y(self)
      [] p = "gamma" -> gamma(self)
      [] p = "z0_characteristic" -> z0_characteristic(self)

\* the addresses a thread holds
Held(t) == {th[t].w, th[t].x, th[t].z, th[t].zres, th[t].yres} \ {NoAddr}

\* C9: under every interleaving of two readers of a mode nobody assigns
\* to, the stored R', L', G', C' and w stay as constructed; the array the
\* guard writes to was allocated by the read that writes and is held by no
\* other reader; and each read returns what a sequential read returns
C9_NoSideEffect ==
    /\ heap["w"] = mode.frequency
    /\ heap["R"] = mode.R /\ heap["L"] = mode.L
    /\ heap["G"] = mode.G /\ heap["C"] = mode.C
    /\ \A t \in Threads :
          /\ th[t].step \in {"mask", "add", "store"} =>
                /\ th[t].z \in ArenaOf(t)
                /\ \A u \in Threads \ {t} : th[t].z \notin Held(u)
          /\ th[t].step = "done" =>
                th[t].result = Sequential(mode, th[t].read)

\* one reader has returned a Z' nudged at DC while the other is about to
\* write its own nudge
C9_Witness ==
    /\ th["t1"].step = "done"
    /\ th["t1"].read = "Z"
    /\ th["t1"].result.a[1].im = EPS
    /\ th["t2"].step = "store"
    /\ th["t2"].mask # {}
    /\ heap["L"] = mode.L

====
